---- MODULE Spec2Model ----
(***************************************************************************)
(* Tic-tac-toe Game component of CompleteSrc/App.tsx: the history of board *)
(* snapshots, the cursor currentMove, the click handler of Board, the      *)
(* handlers handlePlay and jumpTo of Game, and the pure function           *)
(* calculateWinner.                                                        *)
(*                                                                         *)
(* JavaScript arrays are 0-based, TLA+ sequences 1-based: history is a     *)
(* sequence whose element k+1 is history[k] of the code; a board is a      *)
(* function on 0..8, indexed as in the code.                               *)
(***************************************************************************)
EXTENDS Integers, Sequences, FiniteSets, TLC

VARIABLES
    history,      \* useState([Array(9).fill(null)])
    currentMove,  \* useState(0)
    buttons,      \* the jump buttons on screen, by the index each one passes
    lastOp,       \* the last event dispatched by the rendered buttons
    origin,       \* History and cursor as the last accepted move left them
    input,        \* argument of a stand-alone calculateWinner call
    output        \* its result

vars == <<history, currentMove, buttons, lastOp, origin, input, output>>

----------------------------------------------------------------------------
(* Bounds *)

\* cells 0..NumCells-1 are the ones the user clicks
NumCells == 6

----------------------------------------------------------------------------
(* Values *)

Null == "null"
Undefined == "undefined"
NotCalled == "not called"
Marks == {"X", "O"}
Cells == 0..8
ClickCells == 0..(NumCells - 1)

\* JavaScript truthiness of the values a cell or a result can hold
Truthy(v) == v \notin {Null, Undefined, ""}

\* Array(9).fill(null)
EmptyBoard == [i \in Cells |-> Null]

AllBoards == [Cells -> {Null} \cup Marks]

Min(a, b) == IF a < b THEN a ELSE b

\* Array.prototype.slice(start, end) for 0 <= start: elements start..end-1,
\* end clamped to the length
slice(arr, start, end) == SubSeq(arr, start + 1, Min(end, Len(arr)))

----------------------------------------------------------------------------
(* calculateWinner *)

\* the first row mistyped
lines_FirstRowTypo == <<
    <<0, 1, 3>>,
    <<3, 4, 5>>,
    <<6, 7, 8>>,
    <<0, 3, 6>>,
    <<1, 4, 7>>,
    <<2, 5, 8>>,
    <<0, 4, 8>>,
    <<2, 4, 6>> >>

lines == <<
    <<0, 1, 2>>,
    <<3, 4, 5>>,
    <<6, 7, 8>>,
    <<0, 3, 6>>,
    <<1, 4, 7>>,
    <<2, 5, 8>>,
    <<0, 4, 8>>,
    <<2, 4, 6>> >>

\* the test of one line in the loop body
lineMatches_TwoCells(squares, line) ==
    LET a == line[1]
        b == line[2]
    IN  Truthy(squares[a]) /\ squares[a] = squares[b]

lineMatches(squares, line) ==
    LET a == line[1]
        b == line[2]
        c == line[3]
    IN  Truthy(squares[a]) /\ squares[a] = squares[b] /\ squares[a] = squares[c]

\* the for loop from line number k on; falls off the end without a return
RECURSIVE winnerFrom(_, _)
winnerFrom(squares, k) ==
    IF k > Len(lines) THEN Undefined
    ELSE IF lineMatches(squares, lines[k]) THEN squares[lines[k][1]]
    ELSE winnerFrom(squares, k + 1)

\* a sentinel string instead of no value when the loop finds no line
calculateWinner_Sentinel(squares) ==
    LET w == winnerFrom(squares, 1)
    IN  IF w = Undefined THEN "None" ELSE w

calculateWinner(squares) == winnerFrom(squares, 1)

----------------------------------------------------------------------------
(* Game: derived values of a render *)

xIsNext_FromLength == (Len(history) - 1) % 2 = 0

xIsNext == currentMove % 2 = 0

currentSquares == history[currentMove + 1]

\* the indices of the jump buttons: history.map((squares, move) => ...)
moves == 0..(Len(history) - 1)

\* const winner = calculateWinner(props.squares), with squares={currentSquares}
winner == calculateWinner(currentSquares)

\* the two players the wrong way round
status_Swapped ==
    IF Truthy(winner)
    THEN "Winner: " \o winner
    ELSE "Next Player: " \o (IF xIsNext THEN "O" ELSE "X")

\* the text of <div className="status">
status ==
    IF Truthy(winner)
    THEN "Winner: " \o winner
    ELSE "Next Player: " \o (IF xIsNext THEN "X" ELSE "O")

\* a list of buttons that is only ever extended
rerender_KeepOld == buttons' = buttons \cup moves'

\* the render that follows a state update puts <ol>{moves}</ol> on screen
rerender == buttons' = moves'

----------------------------------------------------------------------------
(* Board.handleClick *)

rejects_OnlyWinner(squares, i) == Truthy(calculateWinner(squares))

rejects_OnlyOccupied(squares, i) == Truthy(squares[i])

rejects_And(squares, i) == Truthy(squares[i]) /\ Truthy(calculateWinner(squares))

\* if (props.squares[i] || calculateWinner(props.squares)) return;
rejects(squares, i) == Truthy(squares[i]) \/ Truthy(calculateWinner(squares))

nextSquares_FromLatest(squares, i, xNext) ==
    [history[Len(history)] EXCEPT ![i] = IF xNext THEN "X" ELSE "O"]

\* the else branch forgotten: every move places 'X'
nextSquares_AlwaysX(squares, i, xNext) == [squares EXCEPT ![i] = "X"]

\* const nextSquares = props.squares.slice(); nextSquares[i] = 'X' or 'O'
nextSquares(squares, i, xNext) ==
    [squares EXCEPT ![i] = IF xNext THEN "X" ELSE "O"]

----------------------------------------------------------------------------
(* Game.handlePlay, Game.jumpTo *)

nextHistory_NoSlice(played) == Append(history, played)

nextHistory_DropFirst(played) ==
    Append(slice(history, 1, currentMove + 1), played)

\* the board at the cursor written in place and then appended: what a
\* handleClick without slice() hands over
nextHistory_InPlace(played) ==
    Append([slice(history, 0, currentMove + 1) EXCEPT ![currentMove + 1] = played],
           played)

\* [...history.slice(0, currentMove + 1), nextSquares]
nextHistory(played) == Append(slice(history, 0, currentMove + 1), played)

nextCurrentMove_Length(nh) == Len(nh)

\* nextHistory.length - 1
nextCurrentMove(nh) == Len(nh) - 1

\* a render between setHistory and setCurrentMove
handlePlay_HistoryOnly(played) ==
    /\ history' = nextHistory(played)
    /\ UNCHANGED currentMove

handlePlay(played) ==
    LET nh == nextHistory(played)
    IN  /\ history' = nh
        /\ currentMove' = nextCurrentMove(nh)

setCurrentMove_AndTruncate(nextMove) ==
    /\ currentMove' = nextMove
    /\ history' = slice(history, 0, nextMove + 1)

\* a jump that only ever goes back
setCurrentMove_OnlyBack(nextMove) ==
    /\ currentMove' = Min(currentMove, nextMove)
    /\ UNCHANGED history

setCurrentMove(nextMove) ==
    /\ currentMove' = nextMove
    /\ UNCHANGED history

----------------------------------------------------------------------------
(* Events *)

ClickOp(i, acc, trunc) ==
    [kind |-> "click", arg |-> i, accepted |-> acc, truncated |-> trunc]

JumpOp(n) ==
    [kind |-> "jump", arg |-> n, accepted |-> TRUE, truncated |-> FALSE]

NoOp == [kind |-> "none", arg |-> 0, accepted |-> FALSE, truncated |-> FALSE]

\* what a render shows of a History h and a cursor c
Shown(h, c) == [history |-> h, currentMove |-> c]

\* onSquareClick={() => handleClick(i)}
handleClick(i) ==
    /\ IF rejects(currentSquares, i)
       THEN /\ UNCHANGED <<history, currentMove, origin>>
            /\ lastOp' = ClickOp(i, FALSE, FALSE)
       ELSE /\ handlePlay(nextSquares(currentSquares, i, xIsNext))
            /\ lastOp' = ClickOp(i, TRUE, currentMove < Len(history) - 1)
            /\ origin' = Shown(history', currentMove')
    /\ rerender
    /\ UNCHANGED <<input, output>>

\* onClick={() => jumpTo(move)}
jumpTo(nextMove) ==
    /\ setCurrentMove(nextMove)
    /\ lastOp' = JumpOp(nextMove)
    /\ rerender
    /\ UNCHANGED <<origin, input, output>>

Init ==
    /\ history = <<EmptyBoard>>
    /\ currentMove = 0
    /\ buttons = moves
    /\ lastOp = NoOp
    /\ origin = Shown(history, currentMove)
    /\ input = EmptyBoard
    /\ output = NotCalled

Click == \E i \in ClickCells : handleClick(i)

Jump == \E n \in buttons : jumpTo(n)

Next == Click \/ Jump

Spec == Init /\ [][Next]_vars

----------------------------------------------------------------------------
(* A game played to its end on all 9 cells: the user clicks, without jumping *)
(* back, cells whose click handleClick does not reject                       *)

Play == \E i \in Cells : ~rejects(currentSquares, i) /\ handleClick(i)

NextPlay == Play

SpecPlay == Init /\ [][NextPlay]_vars

----------------------------------------------------------------------------
(* calculateWinner on its own, over every assignment of the 9 cells *)

InitWin ==
    /\ history = <<EmptyBoard>>
    /\ currentMove = 0
    /\ buttons = moves
    /\ lastOp = NoOp
    /\ origin = Shown(history, currentMove)
    /\ input \in AllBoards
    /\ output = NotCalled

Evaluate ==
    /\ output = NotCalled
    /\ output' = calculateWinner(input)
    /\ UNCHANGED <<history, currentMove, buttons, lastOp, origin, input>>

NextWin == Evaluate

SpecWin == InitWin /\ [][NextWin]_vars

----------------------------------------------------------------------------
(* Properties of Game (Spec) *)

\* C1: in every reachable state the cursor is a valid index into History:
\* 0 <= currentMove < history.length.
C1_CursorValid == 0 <= currentMove /\ currentMove < Len(history)

\* a jump back has left the cursor below the last index of a grown History
C1_Witness ==
    /\ lastOp.kind = "jump"
    /\ Len(history) >= 3
    /\ currentMove < Len(history) - 1

\* C2: a click on a cell that is occupied on the board at the cursor changes
\* neither History nor the cursor.
C2_OccupiedClickNoChange ==
    [][(lastOp'.kind = "click" /\ currentSquares[lastOp'.arg] \in Marks)
            => (history' = history /\ currentMove' = currentMove)]_vars

\* an occupied cell of a board without a winner has been clicked
C2_Witness ==
    /\ lastOp.kind = "click"
    /\ ~lastOp.accepted
    /\ currentSquares[lastOp.arg] \in Marks
    /\ calculateWinner(currentSquares) \notin Marks

\* C3: when the board at the cursor has a winner, a click on any cell,
\* occupied or empty, changes neither History nor the cursor.
C3_ClickAfterWinNoChange ==
    [][(lastOp'.kind = "click" /\ calculateWinner(currentSquares) \in Marks)
            => (history' = history /\ currentMove' = currentMove)]_vars

\* an empty cell of a won board has been clicked
C3_Witness ==
    /\ lastOp.kind = "click"
    /\ ~lastOp.accepted
    /\ calculateWinner(currentSquares) \in Marks
    /\ currentSquares[lastOp.arg] = Null

\* C4: a click on an empty cell i of a board without a winner makes the last
\* snapshot of History a board that equals the board at the cursor in the 8
\* other cells and holds the active mark in cell i, keeps the snapshots before
\* it as they were, and sets the cursor to the last index of History.
C4_AcceptedClickAppends ==
    [][(/\ lastOp'.kind = "click"
        /\ currentSquares[lastOp'.arg] = Null
        /\ calculateWinner(currentSquares) \notin Marks)
            => LET i == lastOp'.arg
                   last == Len(history')
                   new == history'[last]
               IN  /\ last >= 2
                   /\ last - 1 <= Len(history)
                   /\ \A k \in 1..(last - 1) : history'[k] = history[k]
                   /\ \A j \in Cells \ {i} : new[j] = currentSquares[j]
                   /\ new[i] = (IF currentMove % 2 = 0 THEN "X" ELSE "O")
                   /\ currentMove' = last - 1]_vars

\* a move has been accepted on a board that already held marks
C4_Witness ==
    /\ lastOp.kind = "click"
    /\ lastOp.accepted
    /\ currentMove = Len(history) - 1
    /\ currentMove >= 3
    /\ currentSquares[lastOp.arg] \in Marks

\* C5: an accepted move made while the cursor c is below the last index makes
\* History the old snapshots 0..c followed by the new snapshot, of length
\* c + 2.
C5_MoveTruncatesFuture ==
    [][(/\ lastOp'.kind = "click"
        /\ currentSquares[lastOp'.arg] = Null
        /\ calculateWinner(currentSquares) \notin Marks
        /\ currentMove < Len(history) - 1)
            => /\ Len(history') = currentMove + 2
               /\ SubSeq(history', 1, currentMove + 1)
                    = SubSeq(history, 1, currentMove + 1)
               /\ \A j \in Cells \ {lastOp'.arg} :
                    history'[currentMove + 2][j] = currentSquares[j]
               /\ history'[currentMove + 2][lastOp'.arg] \in Marks]_vars

\* a move has been made from a cursor below the last index
C5_Witness ==
    /\ lastOp.kind = "click"
    /\ lastOp.accepted
    /\ lastOp.truncated
    /\ Len(history) = currentMove + 1

\* C6: an accepted move places 'X' when the cursor is even and 'O' when it is
\* odd, also after a jump; along History snapshot k differs from snapshot
\* k - 1 in exactly one cell, which was empty and holds 'X' for odd k and 'O'
\* for even k.
C6_MarkByCursorParity ==
    /\ [][(/\ lastOp'.kind = "click"
           /\ currentSquares[lastOp'.arg] = Null
           /\ calculateWinner(currentSquares) \notin Marks)
            => history'[Len(history')][lastOp'.arg]
                 = (IF currentMove % 2 = 0 THEN "X" ELSE "O")]_vars
    /\ [](\A k \in 1..(Len(history) - 1) :
            \E i \in Cells :
                /\ history[k][i] = Null
                /\ history[k + 1][i] = (IF k % 2 = 1 THEN "X" ELSE "O")
                /\ \A j \in Cells \ {i} : history[k + 1][j] = history[k][j])

\* 'O' has been placed from an odd cursor that was below the last index
C6_Witness ==
    /\ lastOp.kind = "click"
    /\ lastOp.accepted
    /\ lastOp.truncated
    /\ currentMove % 2 = 0
    /\ currentSquares[lastOp.arg] = "O"

\* C7: in every reachable state History[0] is the board with all 9 cells
\* empty.
C7_FirstSnapshotEmpty ==
    /\ Len(history) >= 1
    /\ \A i \in Cells : history[1][i] = Null

\* a truncating move has rebuilt a History of several snapshots
C7_Witness ==
    /\ lastOp.kind = "click"
    /\ lastOp.truncated
    /\ Len(history) >= 3
    /\ \A i \in Cells : history[1][i] = Null

\* C9: the empty board has no winner, so in the initial state of Game no
\* winner is reported, no cell rejects a click, and a click adds a snapshot.
C9_InitialBoardOpen ==
    [][(history = <<EmptyBoard>> /\ currentMove = 0)
            => /\ calculateWinner(EmptyBoard) \notin Marks
               /\ ~Truthy(calculateWinner(currentSquares))
               /\ \A i \in Cells : ~rejects(currentSquares, i)
               /\ (lastOp'.kind = "click"
                     => /\ Len(history') = 2
                        /\ history'[2][lastOp'.arg] = "X")]_vars

\* the first click of a game has been accepted
C9_Witness ==
    /\ lastOp.kind = "click"
    /\ lastOp.accepted
    /\ ~lastOp.truncated
    /\ Len(history) = 2
    /\ currentMove = 1
    /\ history[1] = EmptyBoard

\* C10: jumpTo(n) sets the cursor to n and leaves History, its length and
\* every snapshot, as it was.
C10_JumpKeepsHistory ==
    [][lastOp'.kind = "jump"
            => (currentMove' = lastOp'.arg /\ history' = history)]_vars

\* a jump has moved the cursor back and the later snapshots are still there
C10_Witness ==
    /\ lastOp.kind = "jump"
    /\ currentMove = lastOp.arg
    /\ currentMove + 2 < Len(history)

\* C11: the buttons on screen are exactly one per snapshot of History, also
\* after a truncating move has shortened History, and the index a jump passes
\* is a valid index of History at the moment the jump is applied.
C11_JumpIndexValid ==
    /\ [](\A n \in 0..9 : n \in buttons <=> n < Len(history))
    /\ [](buttons \subseteq 0..9)
    /\ [][lastOp'.kind = "jump"
            => (0 <= lastOp'.arg /\ lastOp'.arg < Len(history))]_vars

\* a truncating move has rebuilt History and the buttons with it
C11_Witness ==
    /\ lastOp.kind = "click"
    /\ lastOp.truncated
    /\ Len(history) >= 2
    /\ Cardinality(buttons) = Len(history)

\* C13 as stated: a click on cell i leaves History and the cursor as they were
\* if cell i is occupied or the board at the cursor has a winner, and
\* otherwise changes History.
C13_AcceptedClickChangesHistory ==
    [][lastOp'.kind = "click"
            => IF \/ currentSquares[lastOp'.arg] \in Marks
                  \/ calculateWinner(currentSquares) \in Marks
               THEN /\ history' = history
                    /\ currentMove' = currentMove
                    /\ buttons' = buttons
               ELSE history' # history]_vars

\* C13 amended: a click on cell i is rejected, with History, the cursor and
\* the buttons left as they were, if and only if cell i is occupied or the
\* board at the cursor has a winner; every other click is accepted: it moves
\* the cursor from c to c + 1 and makes History the snapshots 0..c followed by
\* the new snapshot, which is cell for cell the old History only when the old
\* History ended at c + 1 with that same snapshot.
C13_RejectedIffOccupiedOrWon ==
    [][lastOp'.kind = "click"
            => IF \/ currentSquares[lastOp'.arg] \in Marks
                  \/ calculateWinner(currentSquares) \in Marks
               THEN /\ history' = history
                    /\ currentMove' = currentMove
                    /\ buttons' = buttons
               ELSE /\ currentMove' = currentMove + 1
                    /\ Len(history') = currentMove + 2
                    /\ \A k \in 1..(currentMove + 1) : history'[k] = history[k]
                    /\ history'[currentMove + 2] # currentSquares
                    /\ (history' = history => Len(history) = currentMove + 2)]_vars

\* a move has been accepted two or more snapshots into a game, from a cursor
\* below the last index
C13_Witness ==
    /\ lastOp.kind = "click"
    /\ lastOp.accepted
    /\ lastOp.truncated
    /\ currentMove >= 2
    /\ currentSquares # history[currentMove]

\* C15: in every reachable state a click on each of the 9 cells and a jump
\* from each button on screen can be taken, and each is one step; the step of
\* an accepted move shows the new History together with the new cursor, never
\* one of the two updates without the other.
C15_AtomicAndTotal ==
    /\ [](\A i \in Cells : ENABLED handleClick(i))
    /\ [](\A n \in buttons : ENABLED jumpTo(n))
    /\ [][(/\ lastOp'.kind = "click"
           /\ currentSquares[lastOp'.arg] = Null
           /\ calculateWinner(currentSquares) \notin Marks)
            => /\ currentMove' = currentMove + 1
               /\ Len(history') = currentMove' + 1
               /\ history'[currentMove' + 1] # currentSquares
               /\ history'[currentMove' + 1][lastOp'.arg] \in Marks
               /\ buttons' = 0..currentMove']_vars

\* an accepted move has replaced a longer History and moved the cursor
C15_Witness ==
    /\ lastOp.kind = "click"
    /\ lastOp.accepted
    /\ lastOp.truncated
    /\ currentMove = Len(history) - 1
    /\ buttons = 0..currentMove
    /\ currentSquares[lastOp.arg] \in Marks

\* C16: an accepted move alters no snapshot already in History: for every
\* index k up to the cursor before the move, History[k] after the move is
\* cell for cell History[k] before the move.
C16_CopyOnWrite ==
    [][(lastOp'.kind = "click" /\ lastOp'.accepted)
            => \A k \in 0..currentMove : \A c \in Cells :
                    history'[k + 1][c] = history[k + 1][c]]_vars

\* a move has been accepted and the snapshot before it still has the clicked
\* cell empty
C16_Witness ==
    /\ lastOp.kind = "click"
    /\ lastOp.accepted
    /\ Len(history) >= 4
    /\ currentMove = Len(history) - 1
    /\ history[currentMove][lastOp.arg] = Null
    /\ currentSquares[lastOp.arg] \in Marks

\* C20: only the last snapshot of History can have a winner: for every index
\* k below the last, calculateWinner(History[k]) reports no winner, also after
\* jumps back and truncating moves.
C20_OnlyLastSnapshotWon ==
    \A k \in 0..(Len(history) - 2) : calculateWinner(history[k + 1]) \notin Marks

\* the last snapshot is won and a jump has moved the cursor below it
C20_Witness ==
    /\ lastOp.kind = "jump"
    /\ currentMove < Len(history) - 1
    /\ calculateWinner(history[Len(history)]) \in Marks
    /\ calculateWinner(currentSquares) \notin Marks

\* C23: after any sequence of jumps with no accepted move in between,
\* History is what the last accepted move left, and the state is fixed by
\* the last jump target alone: a jump after a jump gives what the second jump
\* gives, repeating the last jump changes nothing, and a jump to the cursor
\* the last accepted move left shows that move's board and active mark again.
C23_NavigationLossless ==
    /\ [](lastOp.kind = "jump"
            => /\ history = origin.history
               /\ currentMove = lastOp.arg
               /\ buttons = 0..(Len(origin.history) - 1)
               /\ ~ENABLED (jumpTo(lastOp.arg) /\ vars' # vars)
               /\ (lastOp.arg = origin.currentMove
                     => /\ currentSquares = origin.history[origin.currentMove + 1]
                        /\ xIsNext = (origin.currentMove % 2 = 0)))
    /\ [][(lastOp.kind = "jump" /\ lastOp'.kind = "jump")
            => /\ history' = history
               /\ buttons' = buttons
               /\ currentMove' = lastOp'.arg
               /\ origin' = origin]_vars

\* a jump back and then a jump to the cursor the last accepted move left
C23_Witness ==
    /\ lastOp.kind = "jump"
    /\ lastOp.arg = origin.currentMove
    /\ origin.currentMove >= 2
    /\ currentMove = Len(history) - 1
    /\ history = origin.history

----------------------------------------------------------------------------
(* Properties of a game on all 9 cells (SpecPlay) *)

\* C12 as stated: an accepted move turns at most one of the 8 triples from
\* incomplete into three equal non-empty marks.
C12_OneTriplePerMove ==
    [][(lastOp'.kind = "click" /\ lastOp'.accepted)
            => LET new == history'[Len(history')]
                   completed ==
                       {k \in 1..Len(lines) :
                           /\ \E m \in Marks : \A p \in 1..3 : new[lines[k][p]] = m
                           /\ \E p \in 1..3 : currentSquares[lines[k][p]] = Null}
               IN  Cardinality(completed) <= 1]_vars

\* C12 amended: an accepted move turns at most two of the 8 triples from
\* incomplete into three equal non-empty marks; every complete triple of the
\* new board holds the mark just placed, which is the mark calculateWinner
\* returns, so the order of the triples never changes the result.
C12_TwoTriplesSameMark ==
    [][(lastOp'.kind = "click" /\ lastOp'.accepted)
            => LET new == history'[Len(history')]
                   full == {k \in 1..Len(lines) :
                              \E m \in Marks : \A p \in 1..3 : new[lines[k][p]] = m}
                   completed ==
                       {k \in full :
                           \E p \in 1..3 : currentSquares[lines[k][p]] = Null}
               IN  /\ Cardinality(completed) <= 2
                   /\ full = completed
                   /\ \A k \in full :
                        /\ new[lines[k][1]] = new[lastOp'.arg]
                        /\ calculateWinner(new) = new[lastOp'.arg]]_vars

\* a move has completed two triples at once
C12_Witness ==
    /\ lastOp.kind = "click"
    /\ lastOp.accepted
    /\ Cardinality({k \in 1..Len(lines) :
            /\ \A p \in 1..3 : currentSquares[lines[k][p]] = currentSquares[lastOp.arg]
            /\ \E p \in 1..3 : lines[k][p] = lastOp.arg}) = 2

\* C19: for every index k of History the snapshot History[k] has exactly k
\* non-empty cells, ceil(k/2) of them 'X' and floor(k/2) of them 'O'; History
\* never holds more than 10 snapshots and the cursor never exceeds 9.
C19_SnapshotMarkCount ==
    /\ Len(history) <= 10
    /\ currentMove <= 9
    /\ \A k \in 0..(Len(history) - 1) :
          /\ Cardinality({c \in Cells : history[k + 1][c] = "X"}) = (k + 1) \div 2
          /\ Cardinality({c \in Cells : history[k + 1][c] = "O"}) = k \div 2
          /\ Cardinality({c \in Cells : history[k + 1][c] # Null}) = k

\* History holds 10 snapshots and the cursor is 9
C19_Witness ==
    /\ Len(history) = 10
    /\ currentMove = 9
    /\ Cardinality({c \in Cells : currentSquares[c] = "X"}) = 5
    /\ Cardinality({c \in Cells : currentSquares[c] = "O"}) = 4

\* the example game of the specification: cells clicked, in order
C14_Clicks == <<0, 4, 1, 8, 2>>

\* the board the example expects after its first n clicks: mark-A ('X') on
\* the odd clicks, mark-B ('O') on the even ones
C14_Board(n) ==
    [c \in Cells |->
        IF \E q \in 1..n : C14_Clicks[q] = c
        THEN (IF (CHOOSE q \in 1..n : C14_Clicks[q] = c) % 2 = 1 THEN "X" ELSE "O")
        ELSE Null]

\* the History the example expects after its first n clicks
C14_History(n) == [k \in 1..(n + 1) |-> C14_Board(k - 1)]

\* C14: from the initial state the clicks 0, 4, 1, 8, 2 are each accepted and
\* place X, O, X, O, X; History then has 6 snapshots, the cursor is 5 and
\* calculateWinner reports 'X' for the board at the cursor.
C14_ExampleGame ==
    /\ [][(/\ currentMove <= 4
           /\ lastOp'.kind = "click"
           /\ lastOp'.arg = C14_Clicks[currentMove + 1]
           /\ history = C14_History(currentMove))
            => /\ history' = C14_History(currentMove + 1)
               /\ currentMove' = currentMove + 1]_vars
    /\ []((currentMove <= 4 /\ history = C14_History(currentMove))
            => ~rejects(currentSquares, C14_Clicks[currentMove + 1]))
    /\ []((Len(history) = 6 /\ history = C14_History(5))
            => /\ currentMove = 5
               /\ calculateWinner(currentSquares) = "X")

\* the fifth click of the example has been made
C14_Witness ==
    /\ history = C14_History(5)
    /\ currentMove = 5
    /\ lastOp = ClickOp(2, TRUE, FALSE)
    /\ \A c \in {0, 1, 2} : currentSquares[c] = "X"
    /\ \A c \in {4, 8} : currentSquares[c] = "O"

\* C18: the status line reads 'Winner: ' and the mark exactly when
\* calculateWinner reports a mark for the board at the cursor, and otherwise
\* 'Next Player: X' when the cursor is even and 'Next Player: O' when it is
\* odd, also on a full board without a winner.
C18_StatusLine ==
    LET w == calculateWinner(currentSquares)
        shown == status
    IN  /\ shown \in {"Winner: X", "Winner: O", "Next Player: X", "Next Player: O"}
        /\ (w = "X") <=> (shown = "Winner: X")
        /\ (w = "O") <=> (shown = "Winner: O")
        /\ (w \notin Marks)
              => /\ (currentMove % 2 = 0) <=> (shown = "Next Player: X")
                 /\ (currentMove % 2 = 1) <=> (shown = "Next Player: O")

\* a full board without a winner is on screen
C18_Witness ==
    /\ Len(history) = 10
    /\ currentMove = 9
    /\ \A c \in Cells : currentSquares[c] \in Marks
    /\ calculateWinner(currentSquares) \notin Marks
    /\ status = "Next Player: O"

\* C21: on every board of History all complete triples hold the same mark,
\* the one calculateWinner returns, so the order in which the 8 triples are
\* tried does not change the result; when History[k] has a winner, it is 'X'
\* for odd k and 'O' for even k, and k >= 5.
C21_WinnerIsLastMover ==
    [](\A k \in 0..(Len(history) - 1) :
        LET b == history[k + 1]
            w == calculateWinner(b)
        IN  /\ w \in Marks \cup {Undefined}
            /\ (w \in Marks)
                  => /\ k >= 5
                     /\ w = (IF k % 2 = 1 THEN "X" ELSE "O")
            /\ \A n \in 1..8 :
                  LET l == lines[n]
                      a == b[l[1]]
                  IN  (a \in Marks /\ b[l[2]] = a /\ b[l[3]] = a) => w = a)

\* the board at the cursor has two complete triples, completed by the ninth
\* move
C21_Witness ==
    /\ currentMove = 9
    /\ calculateWinner(currentSquares) = "X"
    /\ Cardinality({n \in 1..Len(lines) :
            \A p \in 1..3 : currentSquares[lines[n][p]] = "X"}) = 2

\* C22: played without jumpTo, a game has at most 9 accepted moves; a state
\* rejects the click on each of the 9 cells if and only if the board at the
\* cursor has a winner or is full, and in such a state no click changes
\* History or the cursor, so the game stays there; from such a state every
\* snapshot can be jumped to, and every snapshot that is neither won nor full
\* has a cell whose click is not rejected.
C22_GameEnds ==
    [](LET full == \A c \in Cells : currentSquares[c] \in Marks
           stuck == \A i \in Cells : rejects(currentSquares, i)
       IN  /\ Len(history) - 1 <= 9
           /\ currentMove = Len(history) - 1
           /\ IF stuck
              THEN /\ full \/ calculateWinner(currentSquares) \in Marks
                   /\ \A i \in Cells :
                        ~ENABLED (/\ handleClick(i)
                                  /\ (history' # history \/ currentMove' # currentMove))
                   /\ \A k \in buttons :
                        LET b == history[k + 1]
                        IN  /\ ENABLED (jumpTo(k) /\ currentMove' = k)
                            /\ \/ \E i \in Cells : ~rejects(b, i)
                               \/ \A c \in Cells : b[c] \in Marks
                               \/ calculateWinner(b) \in Marks
              ELSE /\ ~full
                   /\ calculateWinner(currentSquares) \notin Marks
                   /\ \E i \in Cells :
                        /\ currentSquares[i] = Null
                        /\ ENABLED (handleClick(i) /\ currentMove' = currentMove + 1))

\* nine moves have filled the board without a winner and every click is
\* rejected, while the snapshots before it are still open
C22_Witness ==
    /\ lastOp.kind = "click"
    /\ lastOp.accepted
    /\ Len(history) = 10
    /\ calculateWinner(currentSquares) \notin Marks
    /\ \A i \in Cells : rejects(currentSquares, i)
    /\ \E i \in Cells : ~rejects(history[9], i)

----------------------------------------------------------------------------
(* Properties of calculateWinner (SpecWin) *)

\* C8 as stated: for every board in which the three cells of any of the 8
\* triples hold the same non-empty mark, calculateWinner returns that mark.
C8_AnyCompleteTripleWins ==
    output # NotCalled
        => \A k \in 1..Len(lines) : \A m \in Marks :
              (\A p \in 1..3 : input[lines[k][p]] = m) => output = m

\* C8 amended: calculateWinner returns the mark of the first triple, in the
\* enumeration order, whose three cells hold the same non-empty mark; it
\* returns the mark of every complete triple when all of them hold the same
\* mark.
C8_FirstCompleteTripleWins ==
    output # NotCalled
        => /\ \A k \in 1..Len(lines) : \A m \in Marks :
                (/\ \A p \in 1..3 : input[lines[k][p]] = m
                 /\ \A j \in 1..(k - 1) : \A n \in Marks :
                        \E p \in 1..3 : input[lines[j][p]] # n)
                    => output = m
           /\ \A m \in Marks :
                (/\ \E k \in 1..Len(lines) :
                        \A p \in 1..3 : input[lines[k][p]] = m
                 /\ \A k \in 1..Len(lines) :
                        \E p \in 1..3 : input[lines[k][p]] # (CHOOSE n \in Marks : n # m))
                    => output = m

\* a board with a complete 'O' triple before a complete 'X' triple has been
\* evaluated
C8_Witness ==
    /\ output = "O"
    /\ \E k \in 1..Len(lines) : \E j \in 1..Len(lines) :
          /\ k < j
          /\ \A p \in 1..3 : input[lines[k][p]] = "O"
          /\ \A p \in 1..3 : input[lines[j][p]] = "X"

\* C17: for every board on which no triple holds three equal non-empty
\* marks, calculateWinner returns null.
C17_NoWinnerIsNull ==
    (/\ output # NotCalled
     /\ \A k \in 1..Len(lines) : \A m \in Marks :
            \E p \in 1..3 : input[lines[k][p]] # m)
        => output = Null

====
